---- MODULE Spec2Model ----
(***************************************************************************)
(* Model of backend/server.js: the chat endpoint (rate limiter, message   *)
(* check, language-model call, speech synthesis with viseme capture,      *)
(* audio file write) and the audio endpoint (existence check, stream,     *)
(* deletion after the response has finished).                             *)
(*                                                                         *)
(* Every request is one slot.  A handler is cut into steps exactly where   *)
(* the JavaScript gives up control: at an await, at an asynchronous fs     *)
(* call and at an SDK callback.                                            *)
(***************************************************************************)
EXTENDS Integers, Sequences, FiniteSets, TLC

\* ------------------------------------------------------------- bounds
NChat == 2        \* chat requests (POST /api/chat) in one run
NFetch == 3       \* audio requests (GET /api/audio/:filename) in one run
MaxVisemes == 2   \* viseme notifications of one synthesis session

ChatIds == 1..NChat
FetchIds == 1..NFetch
BesideChat == 1..(NFetch - 1)   \* the audio requests made while chat requests run
Uuids == 1..NChat
Clients == {"10.0.0.1", "10.0.0.2"}

\* ------------------------------------------------- program constants
RATE_MAX == 20              \* chatLimiter.max
TICKS_PER_UNIT == 10000     \* the divisor of e.audioOffset

VALID_STYLES ==
  {"cheerful", "sad", "angry", "friendly", "terrified",
   "unfriendly", "whispering", "hopeful", "shouting", "excited"}

\* ------------------------------------------------------------ values
\* The environment variables server.js reads.  A variable is not set, set
\* to the empty string, or set to a value.
ConfigKeys == {"OPENAI_API_KEY", "AZURE_SPEECH_KEY", "AZURE_SPEECH_REGION", "AZURE_VOICE_NAME"}
AzureKeys == ConfigKeys \ {"OPENAI_API_KEY"}
ConfigValues == {"unset", "empty", "set"}
Configured == [env |-> [k \in ConfigKeys |-> "set"], loaded |-> TRUE]

\* req.body.message: absent, or a string (a sequence of characters, an
\* HTML tag counting as one).
Undefined == [defined |-> FALSE, text |-> <<>>]
Str(s) == [defined |-> TRUE, text |-> s]
MESSAGES == {Undefined, Str(<<>>), Str(<<" ">>), Str(<<"h", "i">>), Str(<<"<img>", "h", "i">>)}

\* What the language model may hand back in choices[0].message.content.
StyleInputs == {"cheerful", "robotic"}
NoPayload == [message |-> "", style |-> "", reasoning |-> ""]
LlmPayloads == {[message |-> "Hello", style |-> s, reasoning |-> "because"] : s \in StyleInputs}
LlmOutcomes ==
  {[kind |-> "rejected", payload |-> NoPayload], [kind |-> "unparsable", payload |-> NoPayload]}
    \cup {[kind |-> "json", payload |-> p] : p \in LlmPayloads}

\* The few inputs of the chat requests when both endpoints run together.
OneClient == {"10.0.0.1"}
PlainMessages == {Str(<<>>), Str(<<"h", "i">>)}
PlainOutcomes == {o \in LlmOutcomes : o.kind = "rejected" \/ o.payload.style = "cheerful"}
PlainEvents == {[audioOffset |-> 5000, visemeId |-> 7]}

\* Viseme notifications of the speech SDK (audioOffset in ticks).
VisemeEvents == {[audioOffset |-> 5000, visemeId |-> 7], [audioOffset |-> 20000, visemeId |-> 0]}
ResultReasons == {"SynthesizingAudioCompleted", "Canceled"}

\* File names in __dirname, all of one shape <<stem, uuid, extension>>.
NoName == <<"", 0, "">>
ResponseName(u) == <<"response_", u, ".mp3">>
ServerJs == <<"server", 0, ".js">>
Missing == <<"nosuch", 0, ".mp3">>
Paths == {ResponseName(u) : u \in Uuids} \cup {ServerJs, Missing}

\* File contents.
NoFile == <<"ENOENT", 0>>
NoAudio == <<"", 0>>
SourceText == <<"js", 0>>
AudioOf(r) == <<"mp3", r>>      \* result.audioData of session r

VARIABLES
  config,    \* process.env as server.js reads it, and whether the module has loaded
  up,        \* the server process is running
  hits,      \* chatLimiter's store: client address -> requests counted in the window
  chat,      \* chat requests: pc, message, status, parsed reply, response body
  synth,     \* per chat request: the synthesizer session and textToSpeech's promise
  disk,      \* __dirname: path -> contents, NoFile when absent
  uuids,     \* the uuids uuidv4() has returned
  fetch,     \* audio requests: pc, filename, status, bytes streamed
  arrivals,  \* history: chat requests that arrived per client in the window
  emitted,   \* history: notifications the speech collaborator sent, per session
  log        \* history: the stages each chat request went through, in order

vars == <<config, up, hits, chat, synth, disk, uuids, fetch, arrivals, emitted, log>>

NoBody ==
  [response |-> "", style |-> "", reasoning |-> "", audio |-> NoName, visemes |-> <<>>, error |-> ""]
ErrorBody(e) == [NoBody EXCEPT !.error = e]

IdleChat ==
  [pc |-> "idle", message |-> Undefined, prompt |-> <<>>, status |-> 0, parsed |-> NoPayload,
   body |-> NoBody]

NoSsml == [voice |-> "", lead |-> "", style |-> "", text |-> "", tail |-> <<>>]
IdleSynth ==
  [session |-> "none", ssml |-> NoSsml, visemes |-> <<>>, promise |-> "none",
   audioBuffer |-> NoAudio]

IdleFetch == [pc |-> "idle", filename |-> NoName, status |-> 0, sent |-> NoAudio, after |-> {}]

\* ----------------------------------------------------- pure functions
\* sanitizeHtml(text) of the sanitize-html package, which server.js imports:
\* the tags that are not allowed are dropped, the text is kept.
sanitizeHtml(text) == SelectSeq(text, LAMBDA ch : ch # "<img>")

\* JavaScript's !message for an absent or string message.
Falsy(m) == ~m.defined \/ m.text = <<>>

\* e.audioOffset / 10000 is a floating-point division: the quotient keeps
\* its fractional part, held here as the remainder in ticks.
Convert(a) == [whole |-> a \div TICKS_PER_UNIT, frac |-> a % TICKS_PER_UNIT]

\* The entry visemeReceived pushes for notification e.
VisemeEntry(e) == [offset |-> Convert(e.audioOffset), id |-> e.visemeId]

\* A faulty push that puts the entry first.
PushFront(visemes, entry) == <<entry>> \o visemes

\* visemes.push(entry)
Push(visemes, entry) == Append(visemes, entry)

buildSSML(message, style) ==
  [voice |-> "AZURE_VOICE_NAME", lead |-> "redlips_front", style |-> style,
   text |-> message, tail |-> <<"sil", "sil">>]

\* A faulty limiter that refuses the request that reaches max.
LimitedFromMax(count) == count >= RATE_MAX

\* express-rate-limit: the request is counted, then refused when the count
\* exceeds max.
Limited(count) == count > RATE_MAX

\* Counts a client's window may already hold when a run begins.
PriorHits == {0, RATE_MAX - 1}

\* --------------------------------------------------------------- Init
InitWith(counts) ==
  /\ config = Configured
  /\ up = TRUE
  /\ hits \in counts
  /\ arrivals = hits
  /\ chat = [r \in ChatIds |-> IdleChat]
  /\ synth = [r \in ChatIds |-> IdleSynth]
  /\ disk = [p \in Paths |-> IF p = ServerJs THEN SourceText ELSE NoFile]
  /\ uuids = {}
  /\ fetch = [g \in FetchIds |-> IdleFetch]
  /\ emitted = [r \in ChatIds |-> <<>>]
  /\ log = [r \in ChatIds |-> <<>>]

\* -------------------------------------------------------- start-up
\* new OpenAI({apiKey}) throws when apiKey is undefined.
OpenAIThrows(env) == env["OPENAI_API_KEY"] = "unset"

\* !AZURE_SPEECH_KEY || !AZURE_SPEECH_REGION || !AZURE_VOICE_NAME: an
\* undefined value and the empty string are both falsy.
AzureMissing(env) == \E k \in AzureKeys : env[k] # "set"

\* The module is loaded: either statement that throws ends the process
\* before app.listen, otherwise the server listens.
Start ==
  /\ ~config.loaded
  /\ config' = [config EXCEPT !.loaded = TRUE]
  /\ up' = (~OpenAIThrows(config.env) /\ ~AzureMissing(config.env))
  /\ UNCHANGED <<hits, chat, synth, disk, uuids, fetch, arrivals, emitted, log>>

\* ------------------------------------------------ POST /api/chat
\* res.status(code).json({error}) and the end of the handler.
Respond(r, code, e) ==
  chat' = [chat EXCEPT ![r].pc = "done", ![r].status = code, ![r].body = ErrorBody(e)]

\* A catch block that starts the request over.
CaughtRetry(r, stages) ==
  /\ chat' = [chat EXCEPT ![r].pc = "awaitLlm"]
  /\ log' = [log EXCEPT ![r] = @ \o stages \o <<"llm_call">>]

\* The catch block: the failure ends the request with a 500.
Caught(r, stages) ==
  /\ Respond(r, 500, "An error occurred while processing your request.")
  /\ log' = [log EXCEPT ![r] = @ \o stages \o <<"respond">>]

\* A faulty route that checks the message before the limiter counts the
\* request.
ChatPostValidatesFirst(r, c, m) ==
  /\ up
  /\ chat[r].pc = "idle"
  /\ \A q \in ChatIds : q < r => chat[q].pc # "idle"
  /\ arrivals' = [arrivals EXCEPT ![c] = @ + 1]
  /\ LET here == [chat[r] EXCEPT !.message = m] IN
     IF Falsy(m)
     THEN /\ chat' = [chat EXCEPT ![r] = [here EXCEPT !.pc = "done", !.status = 400,
                        !.body = ErrorBody("Message is required.")]]
          /\ log' = [log EXCEPT ![r] = <<"respond">>]
          /\ UNCHANGED hits
     ELSE /\ hits' = [hits EXCEPT ![c] = @ + 1]
          /\ IF Limited(hits[c] + 1)
             THEN /\ chat' = [chat EXCEPT ![r] = [here EXCEPT !.pc = "done", !.status = 429,
                                !.body = ErrorBody("Too many requests, please try again later.")]]
                  /\ log' = [log EXCEPT ![r] = <<"respond">>]
             ELSE /\ chat' = [chat EXCEPT ![r] = [here EXCEPT !.pc = "awaitLlm",
                                                               !.prompt = m.text]]
                  /\ log' = [log EXCEPT ![r] = <<"llm_call">>]
  /\ UNCHANGED <<config, up, synth, disk, uuids, fetch, emitted>>

\* A request of client c with body {message: m} arrives: chatLimiter counts
\* it and either refuses it or calls the handler, which runs up to its
\* first await.
ChatPost(r, c, m) ==
  /\ up
  /\ chat[r].pc = "idle"
  /\ \A q \in ChatIds : q < r => chat[q].pc # "idle"
  /\ hits' = [hits EXCEPT ![c] = @ + 1]
  /\ arrivals' = [arrivals EXCEPT ![c] = @ + 1]
  /\ LET here == [chat[r] EXCEPT !.message = m] IN
     IF Limited(hits[c] + 1)
     THEN /\ chat' = [chat EXCEPT ![r] = [here EXCEPT !.pc = "done", !.status = 429,
                        !.body = ErrorBody("Too many requests, please try again later.")]]
          /\ log' = [log EXCEPT ![r] = <<"respond">>]
     ELSE IF Falsy(m)
     THEN /\ chat' = [chat EXCEPT ![r] = [here EXCEPT !.pc = "done", !.status = 400,
                        !.body = ErrorBody("Message is required.")]]
          /\ log' = [log EXCEPT ![r] = <<"respond">>]
     ELSE /\ chat' = [chat EXCEPT ![r] = [here EXCEPT !.pc = "awaitLlm", !.prompt = m.text]]
          /\ log' = [log EXCEPT ![r] = <<"llm_call">>]
  /\ UNCHANGED <<config, up, synth, disk, uuids, fetch, emitted>>

\* The promise of openai.chat.completions.create settles and the handler
\* resumes: a rejection or a JSON.parse failure goes to the catch block; a
\* parsed reply is handed to textToSpeech, which opens a synthesis session.
LlmSettled(r, o) ==
  /\ up
  /\ chat[r].pc = "awaitLlm"
  /\ IF o.kind = "json"
     THEN /\ chat' = [chat EXCEPT ![r].pc = "awaitTts", ![r].parsed = o.payload]
          /\ synth' = [synth EXCEPT ![r] =
                         [session |-> "open",
                          ssml |-> buildSSML(o.payload.message, o.payload.style),
                          visemes |-> <<>>, promise |-> "pending", audioBuffer |-> NoAudio]]
          /\ log' = [log EXCEPT ![r] = @ \o <<"llm_ok", "tts_call">>]
     ELSE /\ Caught(r, <<"llm_fail">>)
          /\ UNCHANGED synth
  /\ UNCHANGED <<config, up, hits, disk, uuids, fetch, arrivals, emitted>>

\* A faulty handler that pushes onto one array shared by all sessions.
VisemeReceivedShared(r, e) ==
  /\ up
  /\ synth[r].session = "open"
  /\ Len(emitted[r]) < MaxVisemes
  /\ synth' = [q \in ChatIds |->
                 IF synth[q].session = "open"
                 THEN [synth[q] EXCEPT !.visemes = Push(@, VisemeEntry(e))]
                 ELSE synth[q]]
  /\ emitted' = [emitted EXCEPT ![r] = Append(@, e)]
  /\ UNCHANGED <<config, up, hits, chat, disk, uuids, fetch, arrivals, log>>

\* synthesizer.visemeReceived
VisemeReceived(r, e) ==
  /\ up
  /\ synth[r].session = "open"
  /\ Len(emitted[r]) < MaxVisemes
  /\ synth' = [synth EXCEPT ![r].visemes = Push(@, VisemeEntry(e))]
  /\ emitted' = [emitted EXCEPT ![r] = Append(@, e)]
  /\ UNCHANGED <<config, up, hits, chat, disk, uuids, fetch, arrivals, log>>

\* The completion callback of speakSsmlAsync.  After a rejection nothing
\* refers to the viseme array any more.
SpeakResult(r, reason) ==
  /\ up
  /\ synth[r].session = "open"
  /\ IF reason = "SynthesizingAudioCompleted"
     THEN /\ synth' = [synth EXCEPT ![r].audioBuffer = AudioOf(r), ![r].session = "closed",
                                    ![r].promise = "resolved"]
          /\ UNCHANGED emitted
     ELSE /\ synth' = [synth EXCEPT ![r].session = "closed", ![r].promise = "rejected",
                                    ![r].visemes = <<>>]
          /\ emitted' = [emitted EXCEPT ![r] = <<>>]
  /\ UNCHANGED <<config, up, hits, chat, disk, uuids, fetch, arrivals, log>>

\* A faulty error callback that rejects without closing the synthesizer.
SpeakErrorLeak(r) ==
  /\ up
  /\ synth[r].session = "open"
  /\ synth' = [synth EXCEPT ![r].promise = "rejected", ![r].visemes = <<>>]
  /\ emitted' = [emitted EXCEPT ![r] = <<>>]
  /\ UNCHANGED <<config, up, hits, chat, disk, uuids, fetch, arrivals, log>>

\* The error callback of speakSsmlAsync.
SpeakError(r) ==
  /\ up
  /\ synth[r].session = "open"
  /\ synth' = [synth EXCEPT ![r].session = "closed", ![r].promise = "rejected",
                            ![r].visemes = <<>>]
  /\ emitted' = [emitted EXCEPT ![r] = <<>>]
  /\ UNCHANGED <<config, up, hits, chat, disk, uuids, fetch, arrivals, log>>

\* A faulty name generator that returns the same value every time.
uuidRepeated == CHOOSE u \in Uuids : \A v \in Uuids : u <= v

\* uuidv4(): a value it has not returned before.  Which one is immaterial,
\* so the least unused one stands for it.
uuidv4 == CHOOSE u \in Uuids \ uuids : \A v \in Uuids \ uuids : u <= v

\* A handler that does not wait for textToSpeech.
NotAwaited(r) == synth[r].promise # "none"

\* await textToSpeech(...) returns control once the promise is settled,
Settled(r) == synth[r].promise \in {"resolved", "rejected"}

\* A handler that swallows the rejection.
AwaitSwallows(r) == FALSE

\* and throws into the catch block when it was rejected.
AwaitThrows(r) == synth[r].promise = "rejected"

\* A write whose failure goes unnoticed.
WriteUnchecked(ok) == FALSE

\* fs.writeFileSync throws when the write fails.
WriteThrows(ok) == ~ok

\* The handler resumes after await textToSpeech(...): on a result it takes
\* a fresh uuid, writes the file (writeFileSync may throw) and answers 200;
\* a rejection or a failed write goes to the catch block, after which
\* nothing refers to the viseme array any more.
TtsSettled(r, ok) ==
  /\ up
  /\ chat[r].pc = "awaitTts"
  /\ Settled(r)
  /\ IF AwaitThrows(r)
     THEN /\ Caught(r, <<"tts_fail">>)
          /\ UNCHANGED <<disk, uuids, synth, emitted>>
     ELSE /\ uuids' = uuids \cup {uuidv4}
          /\ IF ~WriteThrows(ok)
             THEN /\ disk' = [disk EXCEPT ![ResponseName(uuidv4)] =
                                IF ok THEN synth[r].audioBuffer ELSE @]
                  /\ chat' = [chat EXCEPT ![r].pc = "done", ![r].status = 200,
                                ![r].body = [response |-> chat[r].parsed.message,
                                             style |-> chat[r].parsed.style,
                                             reasoning |-> chat[r].parsed.reasoning,
                                             audio |-> ResponseName(uuidv4),
                                             visemes |-> synth[r].visemes,
                                             error |-> ""]]
                  /\ log' = [log EXCEPT ![r] = @ \o <<"tts_ok", "write", "respond">>]
                  /\ UNCHANGED <<synth, emitted>>
             ELSE /\ Caught(r, <<"tts_ok", "write_fail">>)
                  /\ synth' = [synth EXCEPT ![r].visemes = <<>>]
                  /\ emitted' = [emitted EXCEPT ![r] = <<>>]
                  /\ UNCHANGED disk
  /\ UNCHANGED <<config, up, hits, fetch, arrivals>>

\* The limiter's window of a client ends.
WindowReset(c) ==
  /\ up
  /\ hits[c] > 0
  /\ hits' = [hits EXCEPT ![c] = 0]
  /\ arrivals' = [arrivals EXCEPT ![c] = 0]
  /\ UNCHANGED <<config, up, chat, synth, disk, uuids, fetch, emitted, log>>

\* ------------------------------------------ GET /api/audio/:filename
\* A faulty route that puts chatLimiter in front of the audio handler.
AudioGetLimited(g, f) ==
  /\ up
  /\ fetch[g].pc = "idle"
  /\ \A h \in FetchIds : h < g => fetch[h].pc # "idle"
  /\ \E c \in OneClient :
       /\ hits' = [hits EXCEPT ![c] = @ + 1]
       /\ fetch' = [fetch EXCEPT ![g] =
                      IF Limited(hits[c] + 1)
                      THEN [pc |-> "done", filename |-> f, status |-> 429, sent |-> NoAudio,
                            after |-> {}]
                      ELSE [pc |-> "access", filename |-> f, status |-> 0, sent |-> NoAudio,
                            after |-> {}]]
  /\ UNCHANGED <<config, up, chat, synth, disk, uuids, arrivals, emitted, log>>

\* The request arrives and the handler issues fs.access.
AudioGet(g, f) ==
  /\ up
  /\ fetch[g].pc = "idle"
  /\ \A h \in FetchIds : h < g => fetch[h].pc # "idle"
  /\ fetch' = [fetch EXCEPT ![g] =
                 [pc |-> "access", filename |-> f, status |-> 0, sent |-> NoAudio,
                  after |-> {h \in FetchIds : fetch[h].pc \in {"unlinking", "done"}
                                              /\ fetch[h].status = 200}]]
  /\ UNCHANGED <<config, up, hits, chat, synth, disk, uuids, arrivals, emitted, log>>

\* fs.access looks at the disk and its callback runs: 404, or the headers
\* are set and a read stream is created and piped to the response.
AccessDone(g) ==
  /\ up
  /\ fetch[g].pc = "access"
  /\ IF disk[fetch[g].filename] = NoFile
     THEN fetch' = [fetch EXCEPT ![g].pc = "done", ![g].status = 404]
     ELSE fetch' = [fetch EXCEPT ![g].pc = "opening"]
  /\ UNCHANGED <<config, up, hits, chat, synth, disk, uuids, arrivals, emitted, log>>

\* The read stream opens the file.  An open file is streamed with status
\* 200 whatever happens to its name afterwards; a failed open emits 'error'
\* on a stream that has no error listener, which ends the process.
StreamOpen(g) ==
  /\ up
  /\ fetch[g].pc = "opening"
  /\ IF disk[fetch[g].filename] # NoFile
     THEN /\ fetch' = [fetch EXCEPT ![g].pc = "streaming", ![g].status = 200,
                                    ![g].sent = disk[fetch[g].filename]]
          /\ UNCHANGED up
     ELSE /\ fetch' = [fetch EXCEPT ![g].pc = "crashed"]
          /\ up' = FALSE
  /\ UNCHANGED <<config, hits, chat, synth, disk, uuids, arrivals, emitted, log>>

\* res emits 'finish' and the listener issues fs.unlink.
ResFinish(g) ==
  /\ up
  /\ fetch[g].pc = "streaming"
  /\ fetch' = [fetch EXCEPT ![g].pc = "unlinking"]
  /\ UNCHANGED <<config, up, hits, chat, synth, disk, uuids, arrivals, emitted, log>>

\* fs.unlink removes the name (an error, the name being gone already, is
\* only logged).
UnlinkDone(g) ==
  /\ up
  /\ fetch[g].pc = "unlinking"
  /\ disk' = [disk EXCEPT ![fetch[g].filename] = NoFile]
  /\ fetch' = [fetch EXCEPT ![g].pc = "done"]
  /\ UNCHANGED <<config, up, hits, chat, synth, uuids, arrivals, emitted, log>>

\* ---------------------------------------------------- specifications
\* The chat endpoint's steps, with the request bodies, the language
\* model's answers and the viseme notifications drawn from the given sets.
ChatStep(clients, msgs, outs, evs) ==
  \/ \E r \in ChatIds, c \in clients, m \in msgs : ChatPost(r, c, m)
  \/ \E r \in ChatIds, o \in outs : LlmSettled(r, o)
  \/ \E r \in ChatIds, e \in evs : VisemeReceived(r, e)
  \/ \E r \in ChatIds, reason \in ResultReasons : SpeakResult(r, reason)
  \/ \E r \in ChatIds : SpeakError(r)
  \/ \E r \in ChatIds, ok \in BOOLEAN : TtsSettled(r, ok)
  \/ \E c \in clients : WindowReset(c)

\* The audio endpoint's steps for the audio requests ids.
AudioStep(ids) ==
  \/ \E g \in ids, f \in Paths : AudioGet(g, f)
  \/ \E g \in ids : AccessDone(g)
  \/ \E g \in ids : StreamOpen(g)
  \/ \E g \in ids : ResFinish(g)
  \/ \E g \in ids : UnlinkDone(g)

\* The chat endpoint alone, with every kind of input.
ChatInit == InitWith([Clients -> PriorHits])
ChatNext == ChatStep(Clients, MESSAGES, LlmOutcomes, VisemeEvents)
ChatSpec == ChatInit /\ [][ChatNext]_vars

\* Both endpoints together, the chat requests drawn from a few inputs.
Init == InitWith({[c \in Clients |-> 0]})
Next == ChatStep(OneClient, PlainMessages, PlainOutcomes, PlainEvents) \/ AudioStep(BesideChat)
Spec == Init /\ [][Next]_vars

\* The chat endpoint of one client, with every viseme notification.
SynthNext == ChatStep(OneClient, PlainMessages, PlainOutcomes, VisemeEvents)
SynthSpec == Init /\ [][SynthNext]_vars

\* The chat endpoint of several clients whose windows already hold requests.
LimiterMessages == PlainMessages \cup {Undefined}
LimiterNext == ChatStep(Clients, LimiterMessages, PlainOutcomes, PlainEvents)
LimiterSpec == ChatInit /\ [][LimiterNext]_vars

\* Start-up under every environment, then the chat endpoint.
BootInit ==
  /\ config \in [env : [ConfigKeys -> ConfigValues], loaded : {FALSE}]
  /\ up = FALSE
  /\ hits = [c \in Clients |-> 0]
  /\ arrivals = hits
  /\ chat = [r \in ChatIds |-> IdleChat]
  /\ synth = [r \in ChatIds |-> IdleSynth]
  /\ disk = [p \in Paths |-> IF p = ServerJs THEN SourceText ELSE NoFile]
  /\ uuids = {}
  /\ fetch = [g \in FetchIds |-> IdleFetch]
  /\ emitted = [r \in ChatIds |-> <<>>]
  /\ log = [r \in ChatIds |-> <<>>]
BootNext == Start \/ ChatStep(OneClient, PlainMessages, PlainOutcomes, PlainEvents)
BootSpec == BootInit /\ [][BootNext]_vars

\* The audio endpoint alone, from the state the first chat request leaves
\* when it is answered 200: message "hi", a "cheerful" reply, no viseme, the
\* audio written under the first uuid.  The client's window holds that
\* request, or as many as put the client over the limit.
ServedChat ==
  [pc |-> "done", message |-> Str(<<"h", "i">>), prompt |-> <<"h", "i">>, status |-> 200,
   parsed |-> [message |-> "Hello", style |-> "cheerful", reasoning |-> "because"],
   body |-> [response |-> "Hello", style |-> "cheerful", reasoning |-> "because",
             audio |-> ResponseName(1), visemes |-> <<>>, error |-> ""]]
ServedSynth ==
  [session |-> "closed", ssml |-> buildSSML("Hello", "cheerful"), visemes |-> <<>>,
   promise |-> "resolved", audioBuffer |-> AudioOf(1)]
ServedLog == <<"llm_call", "llm_ok", "tts_call", "tts_ok", "write", "respond">>
ServedHits == {1, RATE_MAX + 1}
ServedInit ==
  /\ config = Configured
  /\ up = TRUE
  /\ hits \in [Clients -> {0} \cup ServedHits]
  /\ \A c \in Clients : (hits[c] = 0) <=> (c \notin OneClient)
  /\ arrivals = hits
  /\ chat = [r \in ChatIds |-> IF r = 1 THEN ServedChat ELSE IdleChat]
  /\ synth = [r \in ChatIds |-> IF r = 1 THEN ServedSynth ELSE IdleSynth]
  /\ disk = [p \in Paths |-> IF p = ServerJs THEN SourceText
                               ELSE IF p = ResponseName(1) THEN AudioOf(1) ELSE NoFile]
  /\ uuids = {1}
  /\ fetch = [g \in FetchIds |-> IdleFetch]
  /\ emitted = [r \in ChatIds |-> <<>>]
  /\ log = [r \in ChatIds |-> IF r = 1 THEN ServedLog ELSE <<>>]
DeliveryNext == AudioStep(FetchIds)
DeliverySpec == ServedInit /\ [][DeliveryNext]_vars

\* The chat endpoint of one client beside a single audio request.
FirstFetch == {1}
OrphanNext == ChatStep(OneClient, PlainMessages, PlainOutcomes, PlainEvents) \/ AudioStep(FirstFetch)
OrphanSpec == Init /\ [][OrphanNext]_vars

\* ================================================================ claims
Range(q) == {q[i] : i \in 1..Len(q)}

\* The audio artifacts: the files named in the audio field of a 200 chat
\* response.
Artifacts == {chat[r].body.audio : r \in {q \in ChatIds : chat[q].status = 200}}

\* The audio requests that were answered 200 with file f.
Delivered(f) == {g \in FetchIds : fetch[g].filename = f /\ fetch[g].status = 200}

\* C1: of all the audio requests that name one artifact, however they
\* interleave, at most one is answered 200.
C1_AtMostOneDelivery ==
  \A f \in Artifacts : Cardinality(Delivered(f)) <= 1

\* C2: when an artifact is fetched twice and the second request is issued
\* after the response of the first, answered 200, has finished, the second
\* request is not answered 200.
C2_SecondFetchNotFound ==
  \A g \in FetchIds : \A h \in fetch[g].after :
    (fetch[h].filename = fetch[g].filename /\ fetch[g].filename \in Artifacts)
      => fetch[g].status # 200

\* C7: an audio request is answered 200 only for an artifact a chat request
\* wrote; for any other file name it is answered 404, nothing is streamed
\* and nothing is deleted.
C7_OnlyArtifactsServed ==
  /\ \A g \in FetchIds :
       /\ fetch[g].status = 200 => fetch[g].filename \in Artifacts
       /\ (fetch[g].pc = "done" /\ fetch[g].filename \notin Artifacts)
            => (fetch[g].status = 404 /\ fetch[g].sent = NoAudio)
  /\ disk[ServerJs] = SourceText

\* ------------------------------------------------------ chat endpoint
\* The message is missing, empty, or made of white space only.
IsBlank(m) == ~m.defined \/ \A i \in 1..Len(m.text) : m.text[i] = " "

Called(r, stage) == stage \in Range(log[r])

\* The position of a stage in a request's log, 0 when it is not there.
At(r, stage) ==
  IF Called(r, stage) THEN CHOOSE i \in 1..Len(log[r]) : log[r][i] = stage ELSE 0

\* C3: a chat request that reaches the handler with a missing, empty or
\* white-space-only message is answered 400 and the language model is
\* never called for it.
C3_BlankMessageRejected ==
  \A r \in ChatIds :
    (chat[r].pc # "idle" /\ chat[r].status # 429 /\ IsBlank(chat[r].message))
      => (chat[r].status = 400 /\ ~Called(r, "llm_call") /\ synth[r].session = "none")

\* Chat request r arrives from client c in this step.
Arrives(r, c) ==
  chat[r].pc = "idle" /\ chat'[r].pc # "idle" /\ arrivals'[c] = arrivals[c] + 1

\* C4: a client's request is refused with 429 exactly when 20 requests of
\* that client were already counted in the window; it leaves the counts of
\* the other clients alone, and a refused request reaches no stage of the
\* handler.
C4_RateLimitBoundary ==
  /\ [][\A r \in ChatIds, c \in Clients :
          Arrives(r, c) =>
            /\ (chat'[r].status = 429) <=> (arrivals[c] >= RATE_MAX)
            /\ \A d \in Clients \ {c} : hits'[d] = hits[d]]_vars
  /\ [](\A r \in ChatIds :
          chat[r].status = 429 =>
            /\ chat[r].pc = "done" /\ log[r] = <<"respond">>
            /\ synth[r].session = "none" /\ chat[r].body.audio = NoName)

C4_Witness ==
  \E c \in Clients, r, q \in ChatIds :
    /\ arrivals[c] = RATE_MAX + 1
    /\ chat[r].status = 429
    /\ chat[q].pc # "idle" /\ chat[q].status # 429

\* The language-model call or the synthesis of request r has failed.
Failed(r) == Called(r, "llm_fail") \/ synth[r].promise = "rejected"

\* The files on disk that the server did not start with.
Written == {p \in Paths : p # ServerJs /\ disk[p] # NoFile}

\* C5: once the language-model call or the synthesis of a request has
\* failed, the request is answered 500 and nothing else, and it never
\* writes a file: no file on disk is its own.
C5_FailureLeavesNoFile ==
  /\ \A r \in ChatIds :
       Failed(r) =>
         /\ chat[r].status \in {0, 500}
         /\ chat[r].pc = "done" => chat[r].status = 500
         /\ ~Called(r, "write") /\ chat[r].body.audio = NoName
         /\ \A p \in Paths : disk[p] # AudioOf(r)
  /\ Cardinality(Written) <= Cardinality({r \in ChatIds : Called(r, "write")})

C5_Witness ==
  \E r, q \in ChatIds :
    /\ Called(r, "llm_fail") /\ chat[r].status = 500
    /\ Called(q, "tts_fail") /\ chat[q].status = 500
    /\ Written = {}

\* C6: the style of a 200 response is one of VALID_STYLES, and a reply whose
\* style is not one of them ends in 500 without being handed to the
\* synthesis.
C6_StyleAlwaysValid ==
  \A r \in ChatIds :
    /\ chat[r].status = 200 => chat[r].body.style \in VALID_STYLES
    /\ (chat[r].parsed # NoPayload /\ chat[r].parsed.style \notin VALID_STYLES)
         => (synth[r].session = "none" /\ chat[r].status \in {0, 500})

\* C8: the stages of a request do not overlap: no synthesis while the
\* language-model call is pending, a synthesis only for a parsed reply, a
\* file write only after the synthesis resolved, and 200 only after the
\* write.
C8_StagesInSequence ==
  \A r \in ChatIds :
    /\ chat[r].pc = "awaitLlm" =>
         (synth[r].session = "none" /\ ~Called(r, "write") /\ chat[r].parsed = NoPayload)
    /\ synth[r].session # "none" =>
         /\ chat[r].parsed # NoPayload
         /\ synth[r].ssml = buildSSML(chat[r].parsed.message, chat[r].parsed.style)
         /\ 0 < At(r, "llm_ok") /\ At(r, "llm_ok") < At(r, "tts_call")
    /\ Called(r, "write") =>
         /\ synth[r].promise = "resolved" /\ synth[r].session = "closed"
         /\ 0 < At(r, "tts_ok") /\ At(r, "tts_ok") < At(r, "write")
    /\ chat[r].status = 200 =>
         log[r] = <<"llm_call", "llm_ok", "tts_call", "tts_ok", "write", "respond">>

C8_Witness ==
  \E r, q \in ChatIds :
    /\ chat[r].status = 200 /\ disk[chat[r].body.audio] # NoFile
    /\ chat[q].pc = "awaitTts" /\ synth[q].session = "open"

\* a.audioOffset / 10000 <= b.audioOffset / 10000, on converted offsets.
OffsetLeq(x, y) == x.whole < y.whole \/ (x.whole = y.whole /\ x.frac <= y.frac)

\* C9: the visemes of a resolved synthesis, and of the 200 response, are
\* the notifications the session received, one entry each, in arrival
\* order; when these came in non-decreasing offset order the response's
\* visemes are sorted by offset.
C9_VisemesInArrivalOrder ==
  \A r \in ChatIds :
    LET got == IF chat[r].status = 200 THEN chat[r].body.visemes ELSE synth[r].visemes IN
    (synth[r].promise = "resolved" \/ chat[r].status = 200) =>
      /\ Len(got) = Len(emitted[r])
      /\ \A i \in 1..Len(got) :
           /\ got[i].id = emitted[r][i].visemeId
           /\ got[i].offset.whole * TICKS_PER_UNIT + got[i].offset.frac
                = emitted[r][i].audioOffset
      /\ (\A i, j \in 1..Len(got) :
            i < j => emitted[r][i].audioOffset <= emitted[r][j].audioOffset)
           => \A i, j \in 1..Len(got) : i < j => OffsetLeq(got[i].offset, got[j].offset)

C9_Witness ==
  \E r \in ChatIds :
    /\ chat[r].status = 200
    /\ Len(chat[r].body.visemes) = 2
    /\ emitted[r][1].audioOffset < emitted[r][2].audioOffset

\* C10: when textToSpeech's promise is settled, either way, the session is
\* closed, and no request ends with its session open.
C10_SessionClosedOnExit ==
  \A r \in ChatIds :
    /\ synth[r].promise \in {"resolved", "rejected"} => synth[r].session = "closed"
    /\ chat[r].pc = "done" => synth[r].session # "open"

C10_Witness ==
  \E r, q \in ChatIds :
    /\ synth[r].promise = "resolved" /\ synth[r].session = "closed"
    /\ synth[q].promise = "rejected" /\ synth[q].session = "closed"
    /\ chat[q].status = 500

\* C11: at the moment a chat request is answered 200, the file its audio
\* field names is on disk and holds the audio bytes of that request's own
\* synthesis; a 200 never names a file that was not written.
C11_FileWrittenBefore200 ==
  [][\A r \in ChatIds :
       (chat[r].status # 200 /\ chat'[r].status = 200)
         => /\ chat'[r].body.audio \in {ResponseName(u) : u \in Uuids}
            /\ disk[chat'[r].body.audio] = NoFile
            /\ disk'[chat'[r].body.audio] = AudioOf(r)
            /\ disk'[chat'[r].body.audio] = synth[r].audioBuffer]_vars

C11_Witness ==
  /\ chat[1].status = 200 /\ chat[2].status = 200
  /\ disk[chat[1].body.audio] = AudioOf(1)
  /\ disk[chat[2].body.audio] = AudioOf(2)

\* C12: every audio request that found its file and started streaming it
\* is followed by the deletion of that file: when the request is over the
\* file is gone, and until then, while the file is still on disk, the step
\* that leads to its deletion (the end of the stream, then the unlink) can
\* be taken.
C12_DeletionFollowsStream ==
  \A g \in FetchIds :
    fetch[g].status = 200 =>
      \/ disk[fetch[g].filename] = NoFile
      \/ /\ fetch[g].pc \in {"streaming", "unlinking"}
         /\ ENABLED (ResFinish(g) \/ UnlinkDone(g))

\* How often stage occurs in the log of chat request r.
Times(r, stage) == Cardinality({i \in 1..Len(log[r]) : log[r][i] = stage})

\* The step of chat request r that is due while it waits for a collaborator.
Resume(r) ==
  \/ \E o \in LlmOutcomes : LlmSettled(r, o)
  \/ \E reason \in ResultReasons : SpeakResult(r, reason)
  \/ SpeakError(r)
  \/ \E ok \in BOOLEAN : TtsSettled(r, ok)

\* C13: every chat request that arrived reaches a terminal state with
\* exactly one response, of status 200, 400, 429 or 500: it never sends two,
\* a finished request has sent one, and a request waiting for a collaborator
\* can always take the step that follows the collaborator's report.
C13_ExactlyOneResponse ==
  \A r \in ChatIds :
    /\ Times(r, "respond") <= 1
    /\ chat[r].pc = "done" => (Times(r, "respond") = 1 /\ chat[r].status \in {200, 400, 429, 500})
    /\ chat[r].pc \in {"awaitLlm", "awaitTts"} => (Times(r, "respond") = 0 /\ ENABLED Resume(r))

\* C14: every viseme of a 200 chat response has a non-negative integer
\* offset, the integer quotient of the notification's audioOffset by 10000
\* with no fractional part, and the id the speech collaborator reported.
C14_OffsetsAreIntegers ==
  \A r \in ChatIds :
    chat[r].status = 200 =>
      /\ Len(chat[r].body.visemes) = Len(emitted[r])
      /\ \A i \in 1..Len(chat[r].body.visemes) :
           /\ chat[r].body.visemes[i].offset.frac = 0
           /\ chat[r].body.visemes[i].offset.whole >= 0
           /\ chat[r].body.visemes[i].offset.whole = emitted[r][i].audioOffset \div TICKS_PER_UNIT
           /\ chat[r].body.visemes[i].id = emitted[r][i].visemeId

\* C15: in every chat request that reaches the language model, the text
\* sent as the user message is the sanitized form of the message, never the
\* input as it arrived.
C15_PromptIsSanitized ==
  \A r \in ChatIds :
    Called(r, "llm_call") => chat[r].prompt = sanitizeHtml(chat[r].message.text)

\* C16: when any one of the four configuration values (the language-model
\* credential, the speech credential, the speech region, the voice name) is
\* absent, the process refuses to start: the server runs, and a chat
\* request is handled, only when all four are present.
C16_StartsOnlyWhenConfigured ==
  /\ up => \A k \in ConfigKeys : config.env[k] = "set"
  /\ \A r \in ChatIds :
       chat[r].pc # "idle" => \A k \in ConfigKeys : config.env[k] = "set"

\* C17: the audio endpoint is outside admission control: an audio request
\* is never answered 429, whatever the clients' rate-limit counters hold,
\* and no step of an audio request changes any client's counter.
C17_AudioOutsideLimiter ==
  /\ [](\A g \in FetchIds : fetch[g].status # 429)
  /\ [][fetch' # fetch => hits' = hits]_vars

C17_Witness ==
  \E c \in Clients, g \in FetchIds :
    /\ Limited(hits[c])
    /\ fetch[g].pc = "done" /\ fetch[g].status = 200
    /\ fetch[g].filename = ResponseName(1)

\* The stages that report a failure.
Failures == {"llm_fail", "tts_fail", "write_fail"}

\* C18: no automatic retry: within one chat request the language model is
\* called at most once and the speech collaborator at most once, and after
\* a stage has failed the request makes no further collaborator call and
\* writes no file: it only responds.
C18_NoRetry ==
  \A r \in ChatIds :
    /\ Times(r, "llm_call") <= 1
    /\ Times(r, "tts_call") <= 1
    /\ \A i \in 1..Len(log[r]) :
         log[r][i] \in Failures
           => /\ \A j \in (i + 1)..Len(log[r]) : log[r][j] = "respond"
              /\ Times(r, "write") = 0
              /\ chat[r].pc = "done" /\ chat[r].status = 500

C18_Witness ==
  /\ log[1] = <<"llm_call", "llm_fail", "respond">>
  /\ log[2] = <<"llm_call", "llm_ok", "tts_call", "tts_fail", "respond">>

\* The audio requests that name file f.
Fetches(f) == {g \in FetchIds : fetch[g].filename = f}

\* C19: only the audio endpoint removes audio artifacts: a file on disk
\* changes only when the unlink of an audio request that names it removes
\* it, so no step of a chat request deletes or overwrites an existing file,
\* and an artifact that no audio request names stays on disk with its
\* contents in every later state, whatever other requests are processed.
C19_OnlyAudioRemoves ==
  /\ [][\A p \in Paths :
          (disk[p] # NoFile /\ disk'[p] # disk[p])
            => /\ disk'[p] = NoFile
               /\ \E g \in Fetches(p) : fetch[g].pc = "unlinking" /\ fetch'[g].pc = "done"]_vars
  /\ [](\A r \in ChatIds :
          (chat[r].status = 200 /\ Fetches(chat[r].body.audio) = {})
            => disk[chat[r].body.audio] = AudioOf(r))

C19_Witness ==
  /\ chat[1].status = 200 /\ chat[2].status = 200
  /\ Fetches(chat[1].body.audio) = {}
  /\ disk[chat[1].body.audio] = AudioOf(1)
  /\ \E g \in Fetches(chat[2].body.audio) : fetch[g].pc = "done" /\ fetch[g].status = 200
  /\ disk[chat[2].body.audio] = NoFile

\* The entries of the notifications session r was sent.
OwnEntries(r) == [i \in 1..Len(emitted[r]) |-> VisemeEntry(emitted[r][i])]

\* C20: concurrent chat requests are isolated: however the notifications
\* of overlapping synthesis sessions interleave, the viseme array of a
\* session, and the visemes of the 200 response, hold that session's own
\* notifications and no other's, and the file named in audio holds that
\* session's audio and is named in no other response.
C20_SessionsIsolated ==
  \A r \in ChatIds :
    /\ synth[r].session = "open" => synth[r].visemes = OwnEntries(r)
    /\ chat[r].status = 200 =>
         /\ chat[r].body.visemes = OwnEntries(r)
         /\ synth[r].audioBuffer = AudioOf(r)
         /\ disk[chat[r].body.audio] = AudioOf(r)
         /\ \A q \in ChatIds \ {r} :
              chat[q].status = 200 => chat[q].body.audio # chat[r].body.audio

C20_Witness ==
  /\ synth[1].session = "open" /\ synth[2].session = "open"
  /\ Len(synth[1].visemes) = MaxVisemes /\ Len(synth[2].visemes) > 0
  /\ \A i \in 1..Len(synth[2].visemes) : synth[1].visemes[i] # synth[2].visemes[i]

\* C21: admission control runs before the message check: a chat request
\* that arrives when 20 requests of its client were already counted in the
\* window is answered 429 even when its message is missing or empty, never
\* 400; and a request that is admitted and then answered 400 has been
\* counted as one of the client's requests of the window.
C21_LimiterBeforeValidation ==
  [][\A r \in ChatIds, c \in Clients :
       Arrives(r, c) =>
         /\ hits'[c] = hits[c] + 1
         /\ (arrivals[c] >= RATE_MAX /\ Falsy(chat'[r].message)) => chat'[r].status = 429
         /\ chat'[r].status = 400 => (Falsy(chat'[r].message) /\ hits[c] < RATE_MAX)]_vars

C21_Witness ==
  \E c \in Clients :
    /\ hits[c] = RATE_MAX + 1
    /\ chat[1].status = 400 /\ chat[1].message = Str(<<>>)
    /\ chat[2].status = 429 /\ chat[2].message = Undefined
====
